---- MODULE Spec2Model ----
(***************************************************************************)
(* Closing agreement with milestones (src/contracts/closing_agreement.py). *)
(*                                                                         *)
(* The approval program is a transition function over the application's    *)
(* global key-value state.  `global` is that store: a function whose       *)
(* domain is the set of keys that exist.  A value carries its AVM type,    *)
(* because the AVM rejects a call that compares a byte string with a       *)
(* uint64, and a key that was never written reads as uint64 0.             *)
(*                                                                         *)
(* Byte strings that the program takes apart or builds (milestone records, *)
(* Itob/Btoi encodings, key suffixes) are sequences; opaque ones           *)
(* (addresses, the document hash, status literals) are strings.            *)
(*                                                                         *)
(* The three local-state slots (next_index, index, milestone_data) are     *)
(* written before they are read in the same call and never read by another *)
(* call, so they are LET-bound values of the handler; the sender is taken  *)
(* to hold local storage in the application.  Every call is atomic: a      *)
(* failed Assert, an Err() or a runtime panic rejects the call and no      *)
(* write of it survives.                                                   *)
(***************************************************************************)
EXTENDS Integers, Sequences, FiniteSets, TLC

VARIABLES global, now, lastCall

vars == <<global, now, lastCall>>

(* ---------------------------- bounds ----------------------------------- *)
MaxMilestones == 2
MaxTime == 2

\* Addresses offered to initialize as buyer and seller, and the senders of
\* calls: one sender more, so that some sender is never a party.
Parties == {"acct1", "acct2", "acct3"}
Senders == Parties \cup {"acct4"}
\* The <<buyer, seller>> arguments of initialize: distinct from each other and
\* from the creator, equal to each other, either or both equal to the creator.
\* The pairs left out differ from these by exchanging acct2 and acct3.
PartyPairs ==
    {<<"acct2", "acct3">>, <<"acct2", "acct2">>, <<"acct1", "acct2">>,
     <<"acct2", "acct1">>, <<"acct1", "acct1">>}
\* The creating sender; the addresses are interchangeable, and Parties lets
\* the creator be the buyer, the seller, both or neither.
Creators == {"acct1"}
Titles == {<<"a">>, <<>>}
Descriptions == {<<"d">>}
Hashes == {"H"}

(* ------------------------- values and bytes ---------------------------- *)
U(n) == [t |-> "uint64", v |-> n]
B(x) == [t |-> "bytes", v |-> x]

RECURSIVE ItobAcc(_, _)
ItobAcc(n, k) == IF k = 0 THEN <<>> ELSE Append(ItobAcc(n \div 256, k - 1), n % 256)
\* Itob: 8-byte big-endian encoding of a uint64
Itob(n) == ItobAcc(n, 8)

RECURSIVE BtoiAcc(_, _)
BtoiAcc(s, acc) == IF s = <<>> THEN acc ELSE BtoiAcc(Tail(s), acc * 256 + Head(s))
\* Btoi: big-endian decoding; the AVM panics on more than 8 bytes
BtoiPanics(s) == Len(s) > 8
Btoi(s) == BtoiAcc(s, 0)

\* Byte strings offered as a milestone index argument: the canonical 8-byte
\* encoding, a short encoding of the same number, and an over-long one.
IndexArgs ==
    {Itob(n) : n \in 0..MaxMilestones}
    \cup {<<0>>}
    \cup {<<0, 0, 0, 0, 0, 0, 0, 0, 0>>}

AmountArgs == {Itob(1000), <<1, 0, 0, 0, 0, 0, 0, 0, 0>>}

(* --------------------------- global state ------------------------------ *)
admin == <<"admin">>
buyer == <<"buyer">>
seller == <<"seller">>
amount == <<"amount">>
document_hash == <<"document_hash">>
status == <<"status">>
execution_date == <<"execution_date">>
buyer_signed == <<"buyer_signed">>
seller_signed == <<"seller_signed">>
buyer_signed_at == <<"buyer_signed_at">>
seller_signed_at == <<"seller_signed_at">>
milestone_count == <<"milestone_count">>
current_milestone == <<"current_milestone">>
\* Concat(Bytes("milestone_"), suffix)
milestone_key(suffix) == <<"milestone_">> \o suffix
\* Concat(Bytes("milestone_completed_"), suffix)
milestone_completed_key(suffix) == <<"milestone_completed_">> \o suffix

STATUS_DRAFT == "DRAFT"
STATUS_PENDING == "PENDING"
STATUS_EXECUTED == "EXECUTED"
STATUS_CANCELLED == "CANCELLED"

\* App.globalGet: a missing key reads as uint64 0
globalGet(g, k) == IF k \in DOMAIN g THEN g[k] ELSE U(0)

\* App.globalPut
globalPut(g, k, val) == [x \in (DOMAIN g) \cup {k} |-> IF x = k THEN val ELSE g[x]]

\* `==` of the AVM: comparing values of different types is a runtime panic
EqPanics(a, b) == a.t # b.t
Eq(a, b) == a.t = b.t /\ a.v = b.v

(* ------------------------- helper expressions -------------------------- *)
is_admin(g, sender) == Eq(B(sender), globalGet(g, admin))
is_buyer(g, sender) == Eq(B(sender), globalGet(g, buyer))
is_seller(g, sender) == Eq(B(sender), globalGet(g, seller))
is_draft(g) == Eq(globalGet(g, status), B(STATUS_DRAFT))
is_pending(g) == Eq(globalGet(g, status), B(STATUS_PENDING))
is_executed(g) == Eq(globalGet(g, status), B(STATUS_EXECUTED))
is_cancelled(g) == Eq(globalGet(g, status), B(STATUS_CANCELLED))
all_signed(g) ==
    /\ Eq(globalGet(g, buyer_signed), U(1))
    /\ Eq(globalGet(g, seller_signed), U(1))
all_milestones_complete(g) == Eq(globalGet(g, current_milestone), globalGet(g, milestone_count))

\* Or(is_admin, is_buyer, is_seller): PyTeal's Or evaluates all three
\* comparisons, so the expression panics when buyer or seller is unset.
any_party_panics(g, sender) ==
    \/ EqPanics(B(sender), globalGet(g, admin))
    \/ EqPanics(B(sender), globalGet(g, buyer))
    \/ EqPanics(B(sender), globalGet(g, seller))
any_party_unchecked(g, sender) == ~any_party_panics(g, sender)
any_party(g, sender) ==
    /\ ~any_party_panics(g, sender)
    /\ (is_admin(g, sender) \/ is_buyer(g, sender) \/ is_seller(g, sender))

Accept(g) == [ok |-> TRUE, g |-> g]
Reject(g) == [ok |-> FALSE, g |-> g]

(* ----------------------------- handlers -------------------------------- *)
\* on_creation
on_creation(sender) ==
    LET g0 == (admin :> B(sender))
        g1 == globalPut(g0, status, B(STATUS_DRAFT))
        g2 == globalPut(g1, milestone_count, U(0))
        g3 == globalPut(g2, current_milestone, U(0))
        g4 == globalPut(g3, buyer_signed, U(0))
    IN globalPut(g4, seller_signed, U(0))

initialize_asserts_in_any_status(g, sender, argc, amt) ==
    /\ argc = 5
    /\ is_admin(g, sender)
    /\ ~BtoiPanics(amt)
\* on_initialize: the asserts, and Btoi of the amount argument
initialize_asserts(g, sender, argc, amt) ==
    /\ argc = 5
    /\ is_admin(g, sender)
    /\ is_draft(g)
    /\ ~BtoiPanics(amt)

initialize_effect(g, b, s, amt, h) ==
    LET g1 == globalPut(g, buyer, B(b))
        g2 == globalPut(g1, seller, B(s))
        g3 == globalPut(g2, amount, U(Btoi(amt)))
        g4 == globalPut(g3, document_hash, B(h))
    IN globalPut(g4, status, B(STATUS_PENDING))

on_initialize(g, sender, argc, b, s, amt, h) ==
    IF initialize_asserts(g, sender, argc, amt)
    THEN Accept(initialize_effect(g, b, s, amt, h))
    ELSE Reject(g)

add_milestone_asserts_in_any_status(g, sender, argc) ==
    /\ argc = 3
    /\ any_party(g, sender)
\* on_add_milestone
add_milestone_asserts(g, sender, argc) ==
    /\ argc = 3
    /\ any_party(g, sender)
    /\ (is_draft(g) \/ is_pending(g))

\* title|description|0
milestone_record(title, description) ==
    title \o <<"|">> \o description \o <<"|">> \o <<"0">>

add_milestone_effect_at_current(g, title, description) ==
    LET next_index == globalGet(g, current_milestone)
        g1 == globalPut(g, milestone_key(Itob(next_index.v)),
                        B(milestone_record(title, description)))
    IN globalPut(g1, milestone_count, U(globalGet(g1, milestone_count).v + 1))
add_milestone_effect(g, title, description) ==
    LET next_index == globalGet(g, milestone_count)
        g1 == globalPut(g, milestone_key(Itob(next_index.v)),
                        B(milestone_record(title, description)))
    IN globalPut(g1, milestone_count, U(globalGet(g1, milestone_count).v + 1))

on_add_milestone(g, sender, argc, title, description) ==
    IF add_milestone_asserts(g, sender, argc)
    THEN Accept(add_milestone_effect(g, title, description))
    ELSE Reject(g)

\* on_complete_milestone: "Check if milestone exists"
milestone_exists(g, index) == index < globalGet(g, milestone_count).v

is_next_in_sequence_dropped(g, index) == TRUE
is_next_in_sequence_ge(g, index) == index >= globalGet(g, current_milestone).v
\* on_complete_milestone: "Check if milestone is next in sequence"
is_next_in_sequence(g, index) == index = globalGet(g, current_milestone).v

\* on_complete_milestone: the last byte of the record is "0".  Len of a
\* uint64 (the key does not exist) panics, and so does Len - 1 of an empty
\* byte string.
not_yet_completed(milestone_data) ==
    /\ milestone_data.t = "bytes"
    /\ Len(milestone_data.v) > 0
    /\ SubSeq(milestone_data.v, Len(milestone_data.v), Len(milestone_data.v)) = <<"0">>

mark_completed_appending(milestone_data) == milestone_data.v \o <<"1">>
\* on_complete_milestone: the record with its last byte replaced by "1"
mark_completed(milestone_data) ==
    SubSeq(milestone_data.v, 1, Len(milestone_data.v) - 1) \o <<"1">>

complete_milestone_asserts(g, sender, argc, arg) ==
    /\ argc = 2
    /\ any_party(g, sender)
    /\ is_pending(g)
    /\ ~BtoiPanics(arg)
    /\ milestone_exists(g, Btoi(arg))
    /\ is_next_in_sequence(g, Btoi(arg))
    /\ not_yet_completed(globalGet(g, milestone_key(arg)))

advance_current_milestone_from_count(g) ==
    globalPut(g, current_milestone, U(globalGet(g, milestone_count).v + 1))
\* on_complete_milestone: "Increment current milestone"
advance_current_milestone(g) ==
    globalPut(g, current_milestone, U(globalGet(g, current_milestone).v + 1))

complete_milestone_effect(g, arg, ts) ==
    LET milestone_data == globalGet(g, milestone_key(arg))
        g1 == globalPut(g, milestone_key(arg), B(mark_completed(milestone_data)))
        g2 == globalPut(g1, milestone_completed_key(arg), B(Itob(ts)))
    IN advance_current_milestone(g2)

auto_execute_ignoring_milestones(g, ts) ==
    IF all_signed(g)
    THEN globalPut(globalPut(g, status, B(STATUS_EXECUTED)), execution_date, U(ts))
    ELSE g
\* on_verify_signature: "Check if both have signed and all milestones
\* complete for auto-execution"
auto_execute(g, ts) ==
    IF all_signed(g) /\ all_milestones_complete(g)
    THEN globalPut(globalPut(g, status, B(STATUS_EXECUTED)), execution_date, U(ts))
    ELSE g

on_complete_milestone_auto_executing(g, sender, argc, arg, ts) ==
    IF complete_milestone_asserts(g, sender, argc, arg)
    THEN Accept(auto_execute(complete_milestone_effect(g, arg, ts), ts))
    ELSE Reject(g)
on_complete_milestone(g, sender, argc, arg, ts) ==
    IF complete_milestone_asserts(g, sender, argc, arg)
    THEN Accept(complete_milestone_effect(g, arg, ts))
    ELSE Reject(g)

\* on_verify_signature
verify_signature_asserts_any_sender(g, sender, argc) ==
    /\ argc = 2
    /\ is_pending(g)
verify_signature_asserts(g, sender, argc) ==
    /\ argc = 2
    /\ any_party(g, sender)
    /\ is_pending(g)

signing_party_defaulting_to_seller(g, party) ==
    IF Eq(B(party), globalGet(g, buyer)) THEN "buyer" ELSE "seller"
\* on_verify_signature: "Check which party is signing"
signing_party(g, party) ==
    IF Eq(B(party), globalGet(g, buyer)) THEN "buyer"
    ELSE IF Eq(B(party), globalGet(g, seller)) THEN "seller"
    ELSE "invalid"

record_buyer_signature_toggling(g, ts) ==
    globalPut(globalPut(g, buyer_signed, U(1 - globalGet(g, buyer_signed).v)),
              buyer_signed_at, U(ts))
record_buyer_signature(g, ts) ==
    globalPut(globalPut(g, buyer_signed, U(1)), buyer_signed_at, U(ts))

record_seller_signature(g, ts) ==
    globalPut(globalPut(g, seller_signed, U(1)), seller_signed_at, U(ts))

on_verify_signature(g, sender, argc, party, ts) ==
    IF ~verify_signature_asserts(g, sender, argc) THEN Reject(g)
    ELSE IF signing_party(g, party) = "buyer"
         THEN Accept(auto_execute(record_buyer_signature(g, ts), ts))
    ELSE IF signing_party(g, party) = "seller"
         THEN Accept(auto_execute(record_seller_signature(g, ts), ts))
    ELSE Reject(g)

\* on_execute_agreement
execute_agreement_effect(g, ts) ==
    globalPut(globalPut(g, status, B(STATUS_EXECUTED)), execution_date, U(ts))

on_execute_agreement_ignoring_milestones(g, sender, argc, ts) ==
    IF /\ argc = 1
       /\ any_party(g, sender)
       /\ is_pending(g)
       /\ all_signed(g)
    THEN Accept(execute_agreement_effect(g, ts))
    ELSE Reject(g)
on_execute_agreement_in_any_status(g, sender, argc, ts) ==
    IF /\ argc = 1
       /\ any_party(g, sender)
       /\ all_signed(g)
       /\ all_milestones_complete(g)
    THEN Accept(execute_agreement_effect(g, ts))
    ELSE Reject(g)
on_execute_agreement(g, sender, argc, ts) ==
    IF /\ argc = 1
       /\ any_party(g, sender)
       /\ is_pending(g)
       /\ all_signed(g)
       /\ all_milestones_complete(g)
    THEN Accept(execute_agreement_effect(g, ts))
    ELSE Reject(g)

\* on_cancel_agreement
cancel_agreement_effect_clearing_signatures(g) ==
    globalPut(globalPut(globalPut(g, status, B(STATUS_CANCELLED)),
                        buyer_signed, U(0)), seller_signed, U(0))
cancel_agreement_effect(g) == globalPut(g, status, B(STATUS_CANCELLED))

on_cancel_agreement_after_execution(g, sender, argc) ==
    IF /\ argc = 1
       /\ any_party(g, sender)
       /\ ~is_cancelled(g)
    THEN Accept(cancel_agreement_effect(g))
    ELSE Reject(g)
on_cancel_agreement(g, sender, argc) ==
    IF /\ argc = 1
       /\ any_party(g, sender)
       /\ ~is_executed(g)
       /\ ~is_cancelled(g)
    THEN Accept(cancel_agreement_effect(g))
    ELSE Reject(g)

(* ------------------------------ actions -------------------------------- *)
NoArg == <<>>

\* One application call.  The ledger applies a call only when the program
\* approves it: a rejected call is never part of a block and changes
\* nothing.  lastCall is the last call the ledger applied.
Call(action, sender, party, index, r) ==
    /\ r.ok
    /\ global' = r.g
    /\ lastCall' = [action |-> action, sender |-> sender, party |-> party, index |-> index]
    /\ UNCHANGED now

Init ==
    /\ now = 1
    /\ \E sender \in Creators :
        /\ global = on_creation(sender)
        /\ lastCall = [action |-> "create", sender |-> sender, party |-> "", index |-> NoArg]

initialize ==
    \E sender \in Senders, bs \in PartyPairs, amt \in AmountArgs, h \in Hashes :
        Call("initialize", sender, "", NoArg,
             on_initialize(global, sender, 5, bs[1], bs[2], amt, h))

add_milestone ==
    /\ globalGet(global, milestone_count).v < MaxMilestones
    /\ \E sender \in Senders, title \in Titles, description \in Descriptions :
            Call("add_milestone", sender, "", NoArg,
                 on_add_milestone(global, sender, 3, title, description))

complete_milestone ==
    \E sender \in Senders, arg \in IndexArgs :
        Call("complete_milestone", sender, "", arg,
             on_complete_milestone(global, sender, 2, arg, now))

verify_signature ==
    \E sender \in Senders, party \in Senders :
        Call("verify_signature", sender, party, NoArg,
             on_verify_signature(global, sender, 2, party, now))

execute_agreement ==
    \E sender \in Senders :
        Call("execute_agreement", sender, "", NoArg,
             on_execute_agreement(global, sender, 1, now))

cancel_agreement ==
    \E sender \in Senders :
        Call("cancel_agreement", sender, "", NoArg,
             on_cancel_agreement(global, sender, 1))

\* Global.latest_timestamp() advances between calls
Tick ==
    /\ now < MaxTime
    /\ now' = now + 1
    /\ UNCHANGED <<global, lastCall>>

Next ==
    \/ initialize
    \/ add_milestone
    \/ complete_milestone
    \/ verify_signature
    \/ execute_agreement
    \/ cancel_agreement
    \/ Tick

Spec == Init /\ [][Next]_vars

(* ------------------------- reading the state -------------------------- *)
StatusOf(g) == globalGet(g, status).v
CountOf(g) == globalGet(g, milestone_count).v
CurrentOf(g) == globalGet(g, current_milestone).v
BuyerSignedOf(g) == globalGet(g, buyer_signed).v
SellerSignedOf(g) == globalGet(g, seller_signed).v

\* Inputs the properties range over: every sender, every argument count (a
\* rejected call is the handler's result Reject: not accepted, store as it was),
\* index arguments below, at and above the milestone count, and as party
\* argument every account and a byte string that is no account.
ArgCounts == {1, 2, 3, 4, 5, 6}
AllIndexArgs == IndexArgs \cup {Itob(MaxMilestones + 1), <<1>>}
PartyArgs == Senders \cup {"nobody"}

\* the last byte of the record stored for milestone i
FlagOf(g, i) ==
    LET rec == globalGet(g, milestone_key(Itob(i))) IN rec.v[Len(rec.v)]

\* keys of the store that start with the given prefix
KeysOf(g, prefix) == {k \in DOMAIN g : k[1] = prefix}

(* ------------------------------ claims --------------------------------- *)

\* C1: in every reachable state current_milestone <= milestone_count.
C1_CurrentAtMostCount == CurrentOf(global) <= CountOf(global)

C1_Witness ==
    /\ lastCall.action = "complete_milestone"
    /\ CountOf(global) >= 2
    /\ CurrentOf(global) = CountOf(global)

\* C2: the milestones whose flag is "1", and the indices that have a
\* milestone_completed_<i> timestamp, are exactly 0..current_milestone-1; every
\* milestone from current_milestone up to milestone_count-1 has flag "0".
C2_CompletedIsPrefix ==
    /\ KeysOf(global, "milestone_") = {milestone_key(Itob(i)) : i \in 0..(CountOf(global) - 1)}
    /\ \A i \in 0..(CountOf(global) - 1) :
        /\ (FlagOf(global, i) = "1") <=> (i < CurrentOf(global))
        /\ (FlagOf(global, i) = "0") <=> (i >= CurrentOf(global))
    /\ KeysOf(global, "milestone_completed_")
         = {milestone_completed_key(Itob(i)) : i \in 0..(CurrentOf(global) - 1)}

C2_Witness ==
    /\ CurrentOf(global) >= 1
    /\ CurrentOf(global) < CountOf(global)
    /\ FlagOf(global, 0) = "1"
    /\ FlagOf(global, CurrentOf(global)) = "0"

\* C3: complete_milestone(i) with current_milestone # i is rejected and leaves
\* the state unchanged, for i below, at or above milestone_count, from any
\* sender; completing again the milestone that was just completed is rejected.
C3_OutOfSequenceRejected ==
    /\ \A arg \in AllIndexArgs :
        (BtoiPanics(arg) \/ Btoi(arg) # CurrentOf(global)) =>
            \A sender \in Senders, argc \in ArgCounts :
                on_complete_milestone(global, sender, argc, arg, now) = Reject(global)
    /\ lastCall.action = "complete_milestone" =>
        \A sender \in Senders :
            ~on_complete_milestone(global, sender, 2, lastCall.index, now).ok

C3_Witness ==
    /\ lastCall.action = "complete_milestone"
    /\ lastCall.index = Itob(0)
    /\ CurrentOf(global) = 1
    /\ CountOf(global) = 2
    /\ StatusOf(global) = STATUS_PENDING

\* C4: status changes only DRAFT -> PENDING, PENDING -> EXECUTED,
\* DRAFT -> CANCELLED or PENDING -> CANCELLED.
C4_StatusSteps ==
    [][StatusOf(global') # StatusOf(global) =>
         <<StatusOf(global), StatusOf(global')>> \in
            {<<STATUS_DRAFT, STATUS_PENDING>>, <<STATUS_PENDING, STATUS_EXECUTED>>,
             <<STATUS_DRAFT, STATUS_CANCELLED>>, <<STATUS_PENDING, STATUS_CANCELLED>>}]_vars

C4_Witness ==
    /\ StatusOf(global) = STATUS_CANCELLED
    /\ lastCall.action = "cancel_agreement"
    /\ BuyerSignedOf(global) = 1

\* C5: once status is EXECUTED or CANCELLED every call of every action, from
\* any sender and with any arguments, is rejected, and the state never
\* changes again.
C5_TerminalRejectsAll ==
    /\ [](StatusOf(global) \in {STATUS_EXECUTED, STATUS_CANCELLED} =>
            \A sender \in Senders, argc \in ArgCounts :
                /\ \A bs \in PartyPairs, amt \in AmountArgs, h \in Hashes :
                    ~on_initialize(global, sender, argc, bs[1], bs[2], amt, h).ok
                /\ \A title \in Titles, description \in Descriptions :
                    ~on_add_milestone(global, sender, argc, title, description).ok
                /\ \A arg \in AllIndexArgs :
                    ~on_complete_milestone(global, sender, argc, arg, now).ok
                /\ \A party \in PartyArgs :
                    ~on_verify_signature(global, sender, argc, party, now).ok
                /\ ~on_execute_agreement(global, sender, argc, now).ok
                /\ ~on_cancel_agreement(global, sender, argc).ok)
    /\ [][StatusOf(global) \in {STATUS_EXECUTED, STATUS_CANCELLED} => global' = global]_vars

C5_Witness ==
    /\ StatusOf(global) = STATUS_EXECUTED
    /\ lastCall.action = "verify_signature"
    /\ CountOf(global) >= 1

\* both flags are 1 and every milestone is completed
JointCondition(g) ==
    /\ BuyerSignedOf(g) = 1
    /\ SellerSignedOf(g) = 1
    /\ CurrentOf(g) = CountOf(g)

\* key k is present in both stores or in neither, with the same value
SameAt(g1, g2, k) ==
    /\ (k \in DOMAIN g1) <=> (k \in DOMAIN g2)
    /\ k \in DOMAIN g1 => g1[k] = g2[k]

\* C6: an accepted verify_signature call after which both flags are 1 and
\* current_milestone = milestone_count sets status to EXECUTED and
\* execution_date to the call's timestamp; any other accepted verify_signature
\* call leaves status PENDING and execution_date untouched.  So no state has
\* verify_signature as its last call, the joint condition true and status
\* PENDING.
C6_VerifyAutoExecutes ==
    /\ \A sender \in Senders, party \in PartyArgs :
        LET r == on_verify_signature(global, sender, 2, party, now)
        IN r.ok =>
            IF JointCondition(r.g)
            THEN /\ StatusOf(r.g) = STATUS_EXECUTED
                 /\ execution_date \in DOMAIN r.g
                 /\ r.g[execution_date] = U(now)
            ELSE /\ StatusOf(r.g) = STATUS_PENDING
                 /\ SameAt(r.g, global, execution_date)
    /\ lastCall.action = "verify_signature" =>
        ~(JointCondition(global) /\ StatusOf(global) = STATUS_PENDING)

C6_Witness ==
    /\ lastCall.action = "verify_signature"
    /\ lastCall.party = globalGet(global, seller).v
    /\ StatusOf(global) = STATUS_EXECUTED
    /\ CountOf(global) = 2
    /\ now = MaxTime
    /\ globalGet(global, execution_date) = U(now)

\* C7: an accepted complete_milestone call changes none of status,
\* execution_date, buyer_signed, seller_signed, so the agreement is PENDING
\* after it even when both parties have signed and the last milestone was
\* completed; status becomes EXECUTED only by a verify_signature or
\* execute_agreement call.
C7_CompleteNeverExecutes ==
    /\ [](/\ \A sender \in Senders, arg \in AllIndexArgs :
              LET r == on_complete_milestone(global, sender, 2, arg, now)
              IN r.ok => \A k \in {status, execution_date, buyer_signed, seller_signed} :
                            SameAt(r.g, global, k)
          /\ lastCall.action = "complete_milestone" => StatusOf(global) = STATUS_PENDING)
    /\ [][(StatusOf(global) # STATUS_EXECUTED /\ StatusOf(global') = STATUS_EXECUTED)
            => lastCall'.action \in {"verify_signature", "execute_agreement"}]_vars

C7_Witness ==
    /\ lastCall.action = "complete_milestone"
    /\ JointCondition(global)
    /\ CountOf(global) = 2
    /\ StatusOf(global) = STATUS_PENDING

\* C8: a verify_signature call whose party argument is neither the stored
\* buyer nor the stored seller is rejected and leaves the state unchanged, for
\* every sender.
C8_UnknownPartyRejected ==
    \A party \in PartyArgs :
        (~Eq(B(party), globalGet(global, buyer)) /\ ~Eq(B(party), globalGet(global, seller))) =>
            \A sender \in Senders, argc \in ArgCounts :
                on_verify_signature(global, sender, argc, party, now) = Reject(global)

C8_Witness ==
    /\ lastCall.action = "verify_signature"
    /\ StatusOf(global) = STATUS_PENDING
    /\ BuyerSignedOf(global) = 1
    /\ SellerSignedOf(global) = 0
    /\ \E sender \in Senders :
        /\ is_admin(global, sender)
        /\ ~is_buyer(global, sender)
        /\ ~is_seller(global, sender)

\* C9: buyer_signed and seller_signed never go from 1 back to 0.
C9_SignedIsMonotonic ==
    [][/\ BuyerSignedOf(global) = 1 => BuyerSignedOf(global') = 1
       /\ SellerSignedOf(global) = 1 => SellerSignedOf(global') = 1]_vars

C9_Witness ==
    /\ lastCall.action = "cancel_agreement"
    /\ BuyerSignedOf(global) = 1
    /\ SellerSignedOf(global) = 1
    /\ CurrentOf(global) < CountOf(global)

\* C10 as claimed: a call that changes buyer_signed from 0 to 1 is sent by
\* the stored buyer, and one that changes seller_signed from 0 to 1 by the
\* stored seller.
C10_OnlyOwnSignature ==
    [][/\ (BuyerSignedOf(global) = 0 /\ BuyerSignedOf(global') = 1)
            => lastCall'.sender = globalGet(global', buyer).v
       /\ (SellerSignedOf(global) = 0 /\ SellerSignedOf(global') = 1)
            => lastCall'.sender = globalGet(global', seller).v]_vars

\* C10 amended: a call that changes buyer_signed (seller_signed) from 0 to 1
\* is a verify_signature call whose party argument is the stored buyer
\* (seller) and whose sender is the admin, the buyer or the seller; the sender
\* need not be the party named.
C10_SetByVerifyNamingParty ==
    [][/\ (BuyerSignedOf(global) = 0 /\ BuyerSignedOf(global') = 1)
            => /\ lastCall'.action = "verify_signature"
               /\ lastCall'.party = globalGet(global, buyer).v
               /\ any_party(global, lastCall'.sender)
       /\ (SellerSignedOf(global) = 0 /\ SellerSignedOf(global') = 1)
            => /\ lastCall'.action = "verify_signature"
               /\ lastCall'.party = globalGet(global, seller).v
               /\ any_party(global, lastCall'.sender)]_vars

C10_Witness ==
    /\ lastCall.action = "verify_signature"
    /\ BuyerSignedOf(global) = 1
    /\ lastCall.party = globalGet(global, buyer).v
    /\ lastCall.sender = globalGet(global, seller).v
    /\ ~is_buyer(global, lastCall.sender)
    /\ ~is_admin(global, lastCall.sender)

\* the callers the handlers admit: the stored admin, buyer and seller
Authorised(g) ==
    {globalGet(g, k).v : k \in {k \in {admin, buyer, seller} : k \in DOMAIN g}}

\* the stores agree on every key outside ks
SameExcept(g1, g2, ks) ==
    /\ (DOMAIN g1) \ ks = (DOMAIN g2) \ ks
    /\ \A k \in (DOMAIN g1) \ ks : g1[k] = g2[k]

\* C11 as claimed: add_milestone sent by the admin, the buyer or the seller is
\* accepted in status DRAFT as well as PENDING (also before initialize has
\* stored buyer and seller); it stores title|description|0 at index
\* milestone_count, adds 1 to milestone_count and changes nothing else.
C11_AddMilestoneInDraftAndPending ==
    StatusOf(global) \in {STATUS_DRAFT, STATUS_PENDING} =>
        \A sender \in Authorised(global), title \in Titles, description \in Descriptions :
            LET r == on_add_milestone(global, sender, 3, title, description)
                key == milestone_key(Itob(CountOf(global)))
            IN /\ r.ok
               /\ key \in DOMAIN r.g
               /\ r.g[key] = B(title \o <<"|">> \o description \o <<"|", "0">>)
               /\ CountOf(r.g) = CountOf(global) + 1
               /\ SameExcept(r.g, global, {key, milestone_count})

\* C12 as claimed: cancel_agreement sent by the admin, the buyer or the seller
\* is accepted in every state with status DRAFT or PENDING (also before
\* initialize), sets status to CANCELLED and changes no other key.
C12_CancelInDraftAndPending ==
    StatusOf(global) \in {STATUS_DRAFT, STATUS_PENDING} =>
        \A sender \in Authorised(global) :
            LET r == on_cancel_agreement(global, sender, 1)
            IN /\ r.ok
               /\ StatusOf(r.g) = STATUS_CANCELLED
               /\ SameExcept(r.g, global, {status})

\* C13: an execute_agreement call (it takes no argument besides the action)
\* is accepted if and only if the sender is the admin, the buyer or the
\* seller, status is PENDING, both flags are 1 and current_milestone =
\* milestone_count; accepted, it sets status to EXECUTED and execution_date to
\* the call's timestamp and changes nothing else; rejected, it changes nothing.
C13_ExecuteIffReady ==
    \A sender \in Senders :
        LET r == on_execute_agreement(global, sender, 1, now)
        IN /\ r.ok <=> /\ sender \in Authorised(global)
                       /\ StatusOf(global) = STATUS_PENDING
                       /\ JointCondition(global)
           /\ r.ok => /\ StatusOf(r.g) = STATUS_EXECUTED
                      /\ execution_date \in DOMAIN r.g
                      /\ r.g[execution_date] = U(now)
                      /\ SameExcept(r.g, global, {status, execution_date})
           /\ ~r.ok => r.g = global

C13_Witness ==
    /\ lastCall.action = "execute_agreement"
    /\ StatusOf(global) = STATUS_EXECUTED
    /\ CountOf(global) = 2
    /\ globalGet(global, execution_date) = U(now)

\* C14: initialize is accepted only from the admin in status DRAFT, and then
\* stores buyer, seller, amount and document_hash and sets status to PENDING;
\* it is accepted at most once, and once stored, buyer, seller, amount and
\* document_hash never change.
C14_InitializeOnce ==
    /\ [](\A sender \in Senders, bs \in PartyPairs, amt \in AmountArgs, h \in Hashes :
            LET r == on_initialize(global, sender, 5, bs[1], bs[2], amt, h)
            IN /\ r.ok => /\ globalGet(global, admin) = B(sender)
                          /\ StatusOf(global) = STATUS_DRAFT
                          /\ buyer \notin DOMAIN global
                          /\ r.g = [k \in DOMAIN global \cup {buyer, seller, amount, document_hash} |->
                                      CASE k = buyer -> B(bs[1])
                                        [] k = seller -> B(bs[2])
                                        [] k = amount -> U(Btoi(amt))
                                        [] k = document_hash -> B(h)
                                        [] k = status -> B(STATUS_PENDING)
                                        [] OTHER -> global[k]]
               /\ ~r.ok => r.g = global)
    /\ [][/\ (lastCall'.action = "initialize" /\ now' = now) =>
                (lastCall.action # "initialize" /\ buyer \notin DOMAIN global)
          /\ buyer \in DOMAIN global =>
                \A k \in {buyer, seller, amount, document_hash} : SameAt(global', global, k)]_vars

C14_Witness ==
    /\ lastCall.action = "cancel_agreement"
    /\ globalGet(global, buyer) = B("acct2")
    /\ globalGet(global, seller) = B("acct3")
    /\ globalGet(global, amount) = U(1000)
    /\ globalGet(global, document_hash) = B("H")
    /\ CountOf(global) = 1

\* C15: a call of add_milestone, complete_milestone, verify_signature,
\* execute_agreement or cancel_agreement whose sender is none of admin, buyer,
\* seller, and a call of initialize whose sender is not the admin, is rejected
\* and leaves the state unchanged.
C15_UnauthorisedRejected ==
    \A sender \in Senders :
        /\ sender \notin Authorised(global) =>
            /\ \A title \in Titles, description \in Descriptions :
                on_add_milestone(global, sender, 3, title, description) = Reject(global)
            /\ \A arg \in AllIndexArgs :
                on_complete_milestone(global, sender, 2, arg, now) = Reject(global)
            /\ \A party \in PartyArgs :
                on_verify_signature(global, sender, 2, party, now) = Reject(global)
            /\ on_execute_agreement(global, sender, 1, now) = Reject(global)
            /\ on_cancel_agreement(global, sender, 1) = Reject(global)
        /\ globalGet(global, admin) # B(sender) =>
            \A bs \in PartyPairs, amt \in AmountArgs, h \in Hashes :
                on_initialize(global, sender, 5, bs[1], bs[2], amt, h) = Reject(global)

C15_Witness ==
    /\ StatusOf(global) = STATUS_PENDING
    /\ Authorised(global) = {"acct1", "acct2", "acct3"}
    /\ BuyerSignedOf(global) = 1
    /\ SellerSignedOf(global) = 1
    /\ CountOf(global) = 2
    /\ lastCall.action = "add_milestone"
    /\ lastCall.sender = "acct3"

\* C16: in status PENDING a complete_milestone(i) call from the admin, the
\* buyer or the seller with i = current_milestone and i < milestone_count is
\* accepted; the record title|description|0 of milestone i becomes
\* title|description|1, milestone_completed_<i> becomes the call's timestamp,
\* current_milestone grows by 1, and nothing else changes.
C16_CompleteNextMilestone ==
    (StatusOf(global) = STATUS_PENDING /\ CurrentOf(global) < CountOf(global)) =>
        \A sender \in Authorised(global) :
            LET i == CurrentOf(global)
                key == milestone_key(Itob(i))
                r == on_complete_milestone(global, sender, 2, Itob(i), now)
            IN /\ r.ok
               /\ \E title \in Titles, description \in Descriptions :
                    /\ global[key] = B(title \o <<"|">> \o description \o <<"|", "0">>)
                    /\ r.g[key] = B(title \o <<"|">> \o description \o <<"|", "1">>)
               /\ milestone_completed_key(Itob(i)) \in DOMAIN r.g
               /\ r.g[milestone_completed_key(Itob(i))] = B(Itob(now))
               /\ CurrentOf(r.g) = i + 1
               /\ SameExcept(r.g, global,
                             {key, milestone_completed_key(Itob(i)), current_milestone})

C16_Witness ==
    /\ lastCall.action = "complete_milestone"
    /\ lastCall.index = Itob(1)
    /\ CurrentOf(global) = 2
    /\ globalGet(global, milestone_key(Itob(0))) = B(<<"|", "d", "|", "1">>)
    /\ globalGet(global, milestone_key(Itob(1))) = B(<<"a", "|", "d", "|", "1">>)
    /\ globalGet(global, milestone_completed_key(Itob(1))) = B(Itob(MaxTime))

\* the record without its last byte
RecordBody(rec) == SubSeq(rec.v, 1, Len(rec.v) - 1)

\* C17: an accepted verify_signature call naming a party whose flag is already
\* 1 leaves both flags, the milestone counters and every milestone record as
\* they were, and changes status only when both flags are 1 and
\* current_milestone = milestone_count; the same call issued a second time
\* leaves the flags and status the first one produced.
C17_VerifyIdempotent ==
    \A sender \in Senders, party \in PartyArgs :
        LET r1 == on_verify_signature(global, sender, 2, party, now)
            alreadySigned ==
                \/ globalGet(global, buyer) = B(party) /\ BuyerSignedOf(global) = 1
                \/ globalGet(global, seller) = B(party) /\ SellerSignedOf(global) = 1
        IN r1.ok =>
            /\ alreadySigned =>
                /\ SameExcept(r1.g, global,
                              {buyer_signed_at, seller_signed_at, status, execution_date})
                /\ StatusOf(r1.g) # StatusOf(global) => JointCondition(r1.g)
            /\ \A ts \in now..MaxTime :
                LET r2 == on_verify_signature(r1.g, sender, 2, party, ts)
                IN /\ BuyerSignedOf(r2.g) = BuyerSignedOf(r1.g)
                   /\ SellerSignedOf(r2.g) = SellerSignedOf(r1.g)
                   /\ StatusOf(r2.g) = StatusOf(r1.g)

C17_Witness ==
    /\ lastCall.action = "verify_signature"
    /\ lastCall.party = globalGet(global, buyer).v
    /\ StatusOf(global) = STATUS_PENDING
    /\ BuyerSignedOf(global) = 1
    /\ SellerSignedOf(global) = 1
    /\ globalGet(global, seller_signed_at) = U(1)
    /\ globalGet(global, buyer_signed_at) = U(MaxTime)
    /\ on_verify_signature(global, lastCall.sender, 2, lastCall.party, now).ok

\* C18: milestone_count never decreases; a stored milestone record stays
\* stored with its title and description, and the only change it undergoes is
\* its flag going from "0" to "1".
C18_MilestonesAppendOnly ==
    [][/\ CountOf(global') >= CountOf(global)
       /\ \A k \in KeysOf(global, "milestone_") :
            /\ k \in DOMAIN global'
            /\ global'[k] # global[k] =>
                /\ global[k] = B(RecordBody(global[k]) \o <<"0">>)
                /\ global'[k] = B(RecordBody(global[k]) \o <<"1">>)]_vars

C18_Witness ==
    /\ lastCall.action = "add_milestone"
    /\ CountOf(global) = 2
    /\ CurrentOf(global) = 1
    /\ globalGet(global, milestone_key(Itob(0))) = B(<<"a", "|", "d", "|", "1">>)
    /\ globalGet(global, milestone_key(Itob(1))) = B(<<"|", "d", "|", "0">>)

\* C19: in status EXECUTED both flags are 1, current_milestone =
\* milestone_count and execution_date is set; in every other status
\* execution_date has not been written; execution_date is written only by the
\* call that moves status to EXECUTED.
C19_ExecutionDateWithExecuted ==
    /\ [](IF StatusOf(global) = STATUS_EXECUTED
          THEN /\ JointCondition(global)
               /\ execution_date \in DOMAIN global
               /\ global[execution_date].t = "uint64"
               /\ global[execution_date].v \in 1..now
          ELSE execution_date \notin DOMAIN global)
    /\ [][~SameAt(global', global, execution_date) =>
            /\ StatusOf(global) = STATUS_PENDING
            /\ StatusOf(global') = STATUS_EXECUTED
            /\ global'[execution_date] = U(now)]_vars

C19_Witness ==
    /\ lastCall.action = "execute_agreement"
    /\ StatusOf(global) = STATUS_EXECUTED
    /\ CountOf(global) = 1
    /\ globalGet(global, execution_date) = U(1)
    /\ now = MaxTime

\* C20 as claimed: from every state with status PENDING, whatever buyer and
\* seller initialize stored, the accepted calls complete_milestone for each
\* outstanding milestone, verify_signature for the buyer, verify_signature
\* for the seller and (if still PENDING) execute_agreement lead to status
\* EXECUTED.
RECURSIVE CompleteOutstanding(_, _, _)
CompleteOutstanding(g, sender, ts) ==
    IF CurrentOf(g) >= CountOf(g) THEN g
    ELSE LET r == on_complete_milestone(g, sender, 2, Itob(CurrentOf(g)), ts)
         IN IF r.ok THEN CompleteOutstanding(r.g, sender, ts) ELSE g

DriveToExecution(g, sender, ts) ==
    LET g1 == CompleteOutstanding(g, sender, ts)
        g2 == on_verify_signature(g1, sender, 2, globalGet(g1, buyer).v, ts).g
        g3 == on_verify_signature(g2, sender, 2, globalGet(g2, seller).v, ts).g
    IN on_execute_agreement(g3, sender, 1, ts).g

C20_PendingCanExecute ==
    StatusOf(global) = STATUS_PENDING =>
        \E sender \in Authorised(global) :
            StatusOf(DriveToExecution(global, sender, now)) = STATUS_EXECUTED

\* What the code does instead when buyer = seller: verify_signature takes the
\* buyer branch for that address every time, seller_signed stays 0 and no
\* call ever reaches EXECUTED.
C20_SamePartyNeverExecutes ==
    (buyer \in DOMAIN global /\ globalGet(global, buyer) = globalGet(global, seller)) =>
        /\ SellerSignedOf(global) = 0
        /\ StatusOf(global) # STATUS_EXECUTED

\* With distinct buyer and seller the same sequence does reach EXECUTED from
\* every PENDING state.
C20_DistinctPartiesCanExecute ==
    (StatusOf(global) = STATUS_PENDING /\ globalGet(global, buyer) # globalGet(global, seller)) =>
        \A sender \in Authorised(global) :
            StatusOf(DriveToExecution(global, sender, now)) = STATUS_EXECUTED

====
